---- MODULE Spec2Model ----
(***************************************************************************)
(* The coordinate game: App (game state controller), CoordinateCanvas      *)
(* (coordinate mapper and pointer handlers) and the GAME_MODES table.      *)
(*                                                                         *)
(* JavaScript numbers are modelled as exact rationals <<n, d>> with d > 0  *)
(* in lowest terms, so that 0.4, 3.5, 4/3 and the pixel positions between  *)
(* grid points are all representable and Math.round / Math.floor are       *)
(* computed, not assumed.  lastResult.timestamp (Date.now()) is left out.  *)
(***************************************************************************)
EXTENDS Integers, Sequences, FiniteSets, TLC

\* Successful clicks in one run: the score and the progress counts are unbounded.
MaxHits == 2

---------------------------------------------------------------------------
\* Numbers

RECURSIVE Gcd(_, _)
Gcd(a, b) == IF b = 0 THEN a ELSE Gcd(b, a % b)

Abs(a) == IF a < 0 THEN -a ELSE a

Norm(n, d) ==
  LET g == Gcd(Abs(n), Abs(d))
      s == IF d < 0 THEN -1 ELSE 1
  IN  <<(s * n) \div g, (s * d) \div g>>

Num(k) == <<k, 1>>

FAdd(a, b) == Norm(a[1] * b[2] + b[1] * a[2], a[2] * b[2])
FSub(a, b) == Norm(a[1] * b[2] - b[1] * a[2], a[2] * b[2])
FMul(a, b) == Norm(a[1] * b[1], a[2] * b[2])
FDiv(a, b) == Norm(a[1] * b[2], a[2] * b[1])
FLeq(a, b) == a[1] * b[2] <= b[1] * a[2]
FLess(a, b) == a[1] * b[2] < b[1] * a[2]

\* Math.floor: a[2] > 0, and \div rounds towards minus infinity.
MathFloor(a) == Num(a[1] \div a[2])

\* Math.round: the nearest integer, halves towards plus infinity.
MathRound(a) == MathFloor(FAdd(a, <<1, 2>>))

\* Math.sqrt(s) <= t, for s >= 0.
SqrtLeq(s, t) == FLeq(Num(0), t) /\ FLeq(s, FMul(t, t))

Point(px, py) == [x |-> px, y |-> py]

---------------------------------------------------------------------------
\* types.ts, constants.ts

Intro == "INTRO"
Advanced == "ADVANCED"
Challenge == "CHALLENGE"
Hell == "HELL"

DifficultyLevel == {Intro, Advanced, Challenge, Hell}

UNLOCK_THRESHOLD == 20

GAME_MODES ==
  [m \in DifficultyLevel |->
    CASE m = Intro ->
           [id |-> Intro, xRange |-> <<Num(0), Num(10)>>, yRange |-> <<Num(0), Num(10)>>,
            targetStep |-> Num(1), tolerance |-> <<2, 5>>]
      [] m = Advanced ->
           [id |-> Advanced, xRange |-> <<Num(-10), Num(10)>>, yRange |-> <<Num(-10), Num(10)>>,
            targetStep |-> Num(1), tolerance |-> <<2, 5>>]
      [] m = Challenge ->
           [id |-> Challenge, xRange |-> <<Num(-50), Num(50)>>, yRange |-> <<Num(-50), Num(50)>>,
            targetStep |-> Num(5), tolerance |-> <<7, 2>>]
      [] m = Hell ->
           [id |-> Hell, xRange |-> <<Num(-240), Num(240)>>, yRange |-> <<Num(-180), Num(180)>>,
            targetStep |-> Num(10), tolerance |-> Num(15)]]

---------------------------------------------------------------------------
\* localStorage and JSON

\* A parsed JSON value: null, or an object whose fields map keys to numbers.
JsonNull == [type |-> "null", fields |-> <<>>]
JsonObject(f) == [type |-> "object", fields |-> f]

Counts(i, a, c, h) ==
  JsonObject((Intro :> i) @@ (Advanced :> a) @@ (Challenge :> c) @@ (Hell :> h))

\* What localStorage.getItem returns: null ("absent"), the empty string, a
\* string JSON.parse rejects ("garbage"), or a string it parses to `value`.
Blob(k, v) == [kind |-> k, value |-> v]

StoredBlobs ==
  { Blob("absent", JsonNull), Blob("empty", JsonNull), Blob("garbage", JsonNull),
    Blob("json", JsonNull),
    Blob("json", JsonObject(<<>>)),
    Blob("json", Counts(0, 0, 0, 0)),
    Blob("json", Counts(UNLOCK_THRESHOLD - 1, 0, 0, 0)),
    Blob("json", Counts(UNLOCK_THRESHOLD, UNLOCK_THRESHOLD - 1, 0, 0)),
    Blob("json", Counts(UNLOCK_THRESHOLD, UNLOCK_THRESHOLD, UNLOCK_THRESHOLD - 1, 0)) }

JSONstringify(v) == Blob("json", v)

\* `if (saved)`: null and "" are falsy.
Truthy(blob) == blob.kind \in {"garbage", "json"}

\* JSON.parse throws a SyntaxError.
ParseThrows(blob) == blob.kind = "garbage"

ZeroProgress == Counts(0, 0, 0, 0)

\* useState initializer of progress.
InitialProgress(blob) ==
  IF Truthy(blob) /\ ~ParseThrows(blob) THEN blob.value ELSE ZeroProgress

\* p[m] is undefined when the object has no such key.
HasKey(p, m) == m \in DOMAIN p.fields

\* p[m] < n: a comparison with undefined is false.
JsLess(p, m, n) == HasKey(p, m) /\ p.fields[m] < n

\* p[m] || 0
OrZero(p, m) == IF HasKey(p, m) THEN p.fields[m] ELSE 0

\* { ...prev, [m]: (prev[m] || 0) + 1 }
IncrementProgress(prev, m) ==
  JsonObject([k \in (DOMAIN prev.fields) \cup {m} |->
                IF k = m THEN OrZero(prev, m) + 1 ELSE prev.fields[k]])

---------------------------------------------------------------------------
\* State

VARIABLES
  mounted,     \* App has been constructed and its mount effects have run
  storage,     \* what localStorage.getItem('coordinate_game_progress') returns
  progress,
  mode,
  target,
  score,
  feedback,
  lastResult,  \* <<>> is null, <<r>> is the result r
  timers,      \* pending setTimeout callbacks, oldest first
  dimensions,
  crashed,     \* the render threw and React unmounted the tree
  hits         \* successful clicks so far

vars ==
  <<mounted, storage, progress, mode, target, score, feedback, lastResult,
    timers, dimensions, crashed, hits>>

null == <<>>

config == GAME_MODES[mode]

padding == 40

Widths == {400, 600}

\* The values Math.random() returns: the least, and one next to 1.
RandomDraws == {Num(0), <<999, 1000>>}

---------------------------------------------------------------------------
\* CoordinateCanvas

\* updateSize: the container is clientWidth wide.
updateSize(clientWidth, id) ==
  LET aspectRatio == IF id = Intro THEN Num(1) ELSE <<4, 3>>
  IN  [width |-> Num(clientWidth), height |-> FDiv(Num(clientWidth), aspectRatio)]

toPixel(cfg, dim, p) ==
  LET drawW == FSub(dim.width, Num(padding * 2))
      drawH == FSub(dim.height, Num(padding * 2))
      xSpan == FSub(cfg.xRange[2], cfg.xRange[1])
      ySpan == FSub(cfg.yRange[2], cfg.yRange[1])
      px == FAdd(Num(padding), FMul(FDiv(FSub(p.x, cfg.xRange[1]), xSpan), drawW))
      py == FSub(FSub(dim.height, Num(padding)),
                 FMul(FDiv(FSub(p.y, cfg.yRange[1]), ySpan), drawH))
  IN  Point(px, py)

toLogical(cfg, dim, p) ==
  LET drawW == FSub(dim.width, Num(padding * 2))
      drawH == FSub(dim.height, Num(padding * 2))
      xSpan == FSub(cfg.xRange[2], cfg.xRange[1])
      ySpan == FSub(cfg.yRange[2], cfg.yRange[1])
      lx == FAdd(FMul(FDiv(FSub(p.x, Num(padding)), drawW), xSpan), cfg.xRange[1])
      ly == FAdd(FMul(FDiv(FSub(FSub(dim.height, Num(padding)), p.y), drawH), ySpan),
                 cfg.yRange[1])
  IN  Point(MathRound(lx), MathRound(ly))

\* The pointer is over the canvas element.
OnCanvas(dim, p) ==
  /\ FLeq(Num(0), p.x) /\ FLeq(p.x, dim.width)
  /\ FLeq(Num(0), p.y) /\ FLeq(p.y, dim.height)

---------------------------------------------------------------------------
\* App

getLockStatus(m) ==
  CASE m = Intro -> [isLocked |-> FALSE]
    [] m = Advanced -> [isLocked |-> JsLess(progress, Intro, UNLOCK_THRESHOLD)]
    [] m = Challenge -> [isLocked |-> JsLess(progress, Advanced, UNLOCK_THRESHOLD)]
    [] m = Hell -> [isLocked |-> JsLess(progress, Challenge, UNLOCK_THRESHOLD)]
    [] OTHER -> [isLocked |-> TRUE]

\* rnd is the value Math.random() returns.
getRandomCoord(min, max, step, rnd) ==
  LET steps == MathFloor(FDiv(FSub(max, min), step))
      randomStep == MathFloor(FMul(rnd, FAdd(steps, Num(1))))
  IN  FAdd(min, FMul(randomStep, step))

\* The target generateNewTarget sets, for the config its closure holds.
generateNewTarget(cfg, rx, ry) ==
  Point(getRandomCoord(cfg.xRange[1], cfg.xRange[2], cfg.targetStep, rx),
        getRandomCoord(cfg.yRange[1], cfg.yRange[2], cfg.targetStep, ry))

\* Mutant of isSuccess: `distance < config.tolerance`.
isSuccessStrict(clickPos) ==
  LET dx == FSub(clickPos.x, target.x)
      dy == FSub(clickPos.y, target.y)
  IN  FLess(FAdd(FMul(dx, dx), FMul(dy, dy)), FMul(config.tolerance, config.tolerance))

\* `distance <= config.tolerance` for a click at clickPos.
isSuccess(clickPos) ==
  LET dx == FSub(clickPos.x, target.x)
      dy == FSub(clickPos.y, target.y)
  IN  SqrtLeq(FAdd(FMul(dx, dx), FMul(dy, dy)), config.tolerance)

\* The values the success branch sets.
SuccessScore == score + 1
\* Mutant of SuccessProgress: the count of the first tier is the one incremented.
SuccessProgressOfIntro == IncrementProgress(progress, Intro)
SuccessProgress == IncrementProgress(progress, mode)
SuccessResult == [success |-> TRUE, clickPos |-> target]

\* The value the failure branch sets.
\* Mutant of FailureResult: the marker snaps to the target, as on success.
FailureResultSnapped(clickPos) == [success |-> FALSE, clickPos |-> target]
FailureResult(clickPos) == [success |-> FALSE, clickPos |-> clickPos]
FailureFeedback(clickPos) == <<"miss", MathRound(clickPos.x), MathRound(clickPos.y)>>

\* setTimeout(() => {...}, 1500): the callback keeps the generateNewTarget of
\* the render that created it, hence that render's config.  `stale` records
\* that the mode was switched while the callback was pending; no code reads it.
ScheduledCallback == [mode |-> mode, stale |-> FALSE]

handleCanvasClick(clickPos) ==
  /\ UNCHANGED <<mounted, mode, target, dimensions, crashed>>
  /\ IF isSuccess(clickPos)
     THEN /\ hits < MaxHits
          /\ hits' = hits + 1
          /\ score' = SuccessScore
          /\ progress' = SuccessProgress
          /\ storage' = JSONstringify(progress')
          /\ feedback' = <<"found">>
          /\ lastResult' = <<SuccessResult>>
          /\ timers' = Append(timers, ScheduledCallback)
     ELSE /\ feedback' = FailureFeedback(clickPos)
          /\ lastResult' = <<FailureResult(clickPos)>>
          /\ UNCHANGED <<storage, progress, score, timers, hits>>

\* The pointer positions tried: the pixels of target + offset.
ClickOffsets ==
  { Point(Num(0), Num(0)), Point(<<2, 5>>, <<3, 10>>), Point(Num(2), Num(2)),
    Point(Num(9), Num(12)), Point(Num(16), Num(0)) }

Pointers == {Point(FAdd(target.x, o.x), FAdd(target.y, o.y)) : o \in ClickOffsets}

\* CoordinateCanvas.handleClick with the pointer at the pixel of logical q.
handleClick(q) ==
  LET pixel == toPixel(config, dimensions, q)
      logical == toLogical(config, dimensions, pixel)
  IN  /\ mounted /\ ~crashed
      /\ handleCanvasClick(logical)
      /\ OnCanvas(dimensions, pixel)

\* The values the reset effect (on a mode change) sets.
\* Mutant of ResetScore: the session score survives the mode change.
ResetScoreKept == score
ResetScore == 0
ResetResult == null

\* A setTimeout callback runs.
timeoutCallback ==
  /\ mounted /\ ~crashed
  /\ timers # <<>>
  /\ timers' = Tail(timers)
  /\ \E rx \in RandomDraws, ry \in RandomDraws :
       target' = generateNewTarget(GAME_MODES[Head(timers).mode], rx, ry)
  /\ lastResult' = null
  /\ feedback' = <<"next">>
  /\ UNCHANGED <<mounted, storage, progress, mode, score, dimensions, crashed, hits>>

\* The onClick of the button renderModeButton(m) renders, with the effects
\* the new mode triggers.
modeButtonClick(m) ==
  /\ mounted /\ ~crashed
  /\ IF getLockStatus(m).isLocked \/ m = mode
     THEN UNCHANGED vars
     ELSE /\ mode' = m
          /\ \E rx \in RandomDraws, ry \in RandomDraws :
               target' = generateNewTarget(GAME_MODES[m], rx, ry)
          /\ score' = ResetScore
          /\ lastResult' = ResetResult
          /\ feedback' = <<"newGame">>
          /\ dimensions' = updateSize(dimensions.width[1], m)
          /\ timers' = [i \in 1 .. Len(timers) |-> [timers[i] EXCEPT !.stale = TRUE]]
          /\ UNCHANGED <<mounted, storage, progress, crashed, hits>>

\* A window resize event.
resize(clientWidth) ==
  /\ mounted /\ ~crashed
  /\ dimensions' = updateSize(clientWidth, config.id)
  /\ UNCHANGED <<mounted, storage, progress, mode, target, score, feedback,
                 lastResult, timers, crashed, hits>>

\* The first render throws when progress is null (progress[...] of null).
RenderThrows(p) == p.type = "null"

\* Before App is constructed: the useState defaults, and any stored blob.
Init ==
  /\ mounted = FALSE
  /\ storage \in StoredBlobs
  /\ progress = ZeroProgress
  /\ mode = Intro
  /\ target = Point(Num(3), Num(5))
  /\ score = 0
  /\ feedback = <<"start">>
  /\ lastResult = null
  /\ timers = <<>>
  /\ dimensions = [width |-> Num(600), height |-> Num(450)]
  /\ crashed = FALSE
  /\ hits = 0

\* The first render of App and the effects that run after it: the progress
\* initializer, the persist effect, the reset effect and updateSize.
mount ==
  /\ ~mounted
  /\ mounted' = TRUE
  /\ progress' = InitialProgress(storage)
  /\ crashed' = RenderThrows(progress')
  /\ IF crashed'
     THEN UNCHANGED <<storage, target, feedback, dimensions>>
     ELSE /\ storage' = JSONstringify(progress')
          /\ \E rx \in RandomDraws, ry \in RandomDraws :
               target' = generateNewTarget(GAME_MODES[mode], rx, ry)
          /\ feedback' = <<"newGame">>
          /\ \E w \in Widths : dimensions' = updateSize(w, mode)
  /\ UNCHANGED <<mode, score, lastResult, timers, hits>>

Next ==
  \/ mount
  \/ \E q \in Pointers : handleClick(q)
  \/ timeoutCallback
  \/ \E m \in DifficultyLevel : modeButtonClick(m)
  \/ \E w \in Widths : resize(w)

Spec == Init /\ [][Next]_vars

---------------------------------------------------------------------------
\* Vocabulary of the properties

\* The point handleCanvasClick receives when the pointer is at the pixel of q.
EvaluatedClick(q) == toLogical(config, dimensions, toPixel(config, dimensions, q))

DistSq(a, b) ==
  FAdd(FMul(FSub(a.x, b.x), FSub(a.x, b.x)), FMul(FSub(a.y, b.y), FSub(a.y, b.y)))

\* The squares of the tolerances 0.4, 0.4, 3.5 and 15.
ToleranceSq(m) ==
  CASE m = Intro -> <<4, 25>>
    [] m = Advanced -> <<4, 25>>
    [] m = Challenge -> <<49, 4>>
    [] m = Hell -> Num(225)

WithinTolerance(c, t, m) == FLeq(DistSq(c, t), ToleranceSq(m))

\* v = lo + k * step for an integer k in [0, floor((hi - lo) / step)].
OnAxisGrid(v, lo, hi, step) ==
  \E k \in 0 .. MathFloor(FDiv(FSub(hi, lo), step))[1] : v = FAdd(lo, FMul(Num(k), step))

OnGrid(p, m) ==
  /\ OnAxisGrid(p.x, GAME_MODES[m].xRange[1], GAME_MODES[m].xRange[2], GAME_MODES[m].targetStep)
  /\ OnAxisGrid(p.y, GAME_MODES[m].yRange[1], GAME_MODES[m].yRange[2], GAME_MODES[m].targetStep)

IsFailure(r) == r # null /\ ~r[1].success
IsSuccessResult(r) == r # null /\ r[1].success

\* The persisted count of tier m: what the stored blob holds for it, 0 if nothing.
PersistedCount(m) ==
  IF storage.kind = "json" /\ HasKey(storage.value, m) THEN storage.value.fields[m] ELSE 0

Running == mounted /\ ~crashed

---------------------------------------------------------------------------
\* C1: a click is marked a success if and only if the Euclidean distance
\* between the point handleCanvasClick receives and the current target is at
\* most the current mode's tolerance (at the target and at distance exactly
\* the tolerance it succeeds, beyond the tolerance it fails).
C1_HitTest ==
  [][\A q \in Pointers :
       lastResult' # null /\ handleClick(q) =>
         (lastResult'[1].success <=> WithinTolerance(EvaluatedClick(q), target, mode))]_vars

\* A click 16 units from the target of the Hell tier (tolerance 15) has failed.
C1_Witness ==
  /\ Running /\ mode = Hell /\ IsFailure(lastResult)
  /\ DistSq(lastResult[1].clickPos, target) = Num(256)

\* C2: a successful click in mode m with target t adds 1 to the score and to
\* the progress count of m, in the state and in the store, changes no other
\* count, sets lastResult to {success: true, clickPos: t}, leaves the target
\* alone and schedules one delayed regeneration; a delayed regeneration that
\* fires installs a generated target and sets lastResult to null.
C2_SuccessEffect ==
  [][/\ \A q \in Pointers :
          IsSuccessResult(lastResult') /\ handleClick(q) =>
            /\ score' = score + 1
            /\ OrZero(progress', mode) = OrZero(progress, mode) + 1
            /\ PersistedCount(mode)' = PersistedCount(mode) + 1
            /\ \A m \in DifficultyLevel \ {mode} :
                 /\ HasKey(progress', m) = HasKey(progress, m)
                 /\ OrZero(progress', m) = OrZero(progress, m)
                 /\ PersistedCount(m)' = PersistedCount(m)
            /\ lastResult' = <<[success |-> TRUE, clickPos |-> target]>>
            /\ target' = target
            /\ mode' = mode
            /\ Len(timers') = Len(timers) + 1
     /\ timeoutCallback =>
          /\ lastResult' = null
          /\ OnGrid(target', Head(timers).mode)
          /\ Len(timers') = Len(timers) - 1]_vars

\* A first hit in the Advanced tier: the result sits on the target, and the
\* regeneration is pending.
C2_Witness ==
  /\ Running /\ mode = Advanced /\ score = 1 /\ Len(timers) = 1
  /\ lastResult = <<[success |-> TRUE, clickPos |-> target]>>
  /\ OrZero(progress, Advanced) = 1

\* C3 as stated: a failed click sets lastResult to {success: false, clickPos:
\* the click} and changes nothing else of score, target, mode and progress,
\* and only a click changes a failure result afterwards.
C3_FailureUntilNextClick ==
  [][/\ \A q \in Pointers :
          IsFailure(lastResult') /\ handleClick(q) =>
            /\ lastResult' = <<[success |-> FALSE, clickPos |-> EvaluatedClick(q)]>>
            /\ UNCHANGED <<score, target, mode, progress, storage>>
     /\ IsFailure(lastResult) /\ lastResult' # lastResult =>
          \E q \in Pointers : handleClick(q)]_vars

\* C3 as amended: a failed click sets lastResult to {success: false, clickPos:
\* the click} and changes nothing else of score, target, mode and progress;
\* afterwards a failure result changes only when a click overwrites it or when
\* a target generation (an accepted mode switch, or the delayed regeneration
\* of an earlier success) sets it to null.
C3_FailureUntilClickOrRegeneration ==
  [][/\ \A q \in Pointers :
          IsFailure(lastResult') /\ handleClick(q) =>
            /\ lastResult' = <<[success |-> FALSE, clickPos |-> EvaluatedClick(q)]>>
            /\ UNCHANGED <<score, target, mode, progress, storage>>
     /\ IsFailure(lastResult) /\ lastResult' # lastResult =>
          \/ \E q \in Pointers : handleClick(q)
          \/ /\ lastResult' = null
             /\ \/ timeoutCallback
                \/ \E m \in DifficultyLevel : mode' # mode /\ modeButtonClick(m)]_vars

\* A failure result away from the target, shown while a regeneration is pending.
C3_Witness ==
  /\ Running /\ IsFailure(lastResult) /\ lastResult[1].clickPos # target
  /\ timers # <<>> /\ score = 1

\* C4: an accepted switch to another tier sets lastResult to null and the
\* score to 0, installs a target generated for the new mode, resets the
\* feedback text and leaves every progress count, in the state and in the
\* store, as it was.
C4_ModeSwitch ==
  [][\A m \in DifficultyLevel :
       mode' # mode /\ modeButtonClick(m) =>
         /\ mode' = m
         /\ lastResult' = null
         /\ score' = 0
         /\ OnGrid(target', m)
         /\ feedback' = <<"newGame">>
         /\ progress' = progress
         /\ storage' = storage]_vars

\* After a hit in the Intro tier the player has switched to the Advanced tier.
C4_Witness ==
  /\ Running /\ mode = Advanced /\ hits = 1 /\ score = 0
  /\ lastResult = null /\ feedback = <<"newGame">>
  /\ OnGrid(target, Advanced)

\* C5 as stated: a delayed regeneration that was scheduled before a mode
\* switch is cancelled or ignored: when it comes due it changes neither the
\* target nor lastResult nor the feedback.
C5_StaleCallbackIgnored ==
  [][timeoutCallback /\ Head(timers).stale =>
       UNCHANGED <<target, lastResult, feedback>>]_vars

\* C6 as stated: the click is evaluated at the exact unrounded logical point q
\* of the pointer: it succeeds exactly when q is within the tolerance of the
\* target, and a failure records q.
C6_ExactClickPoint ==
  [][\A q \in Pointers :
       lastResult' # null /\ handleClick(q) =>
         /\ lastResult'[1].success <=> WithinTolerance(q, target, mode)
         /\ ~lastResult'[1].success => lastResult'[1].clickPos = q]_vars

\* The tier whose count gates tier m.
Easier(m) ==
  CASE m = Advanced -> Intro
    [] m = Challenge -> Advanced
    [] m = Hell -> Challenge

\* Tier m is locked exactly when it is not the first tier and the persisted
\* count of the tier before it is below 20.
GatingHolds ==
  \A m \in DifficultyLevel :
    getLockStatus(m).isLocked <=> (m # Intro /\ PersistedCount(Easier(m)) < 20)

\* C7 as stated: once the game runs, the lock of every tier follows the
\* persisted count of the tier before it, the current mode is an unlocked
\* tier, and a click on the button of a locked tier changes nothing.
C7_UnlockGating ==
  [][/\ Running' => GatingHolds' /\ ~getLockStatus(mode).isLocked'
     /\ \A m \in DifficultyLevel :
          getLockStatus(m).isLocked /\ modeButtonClick(m) => UNCHANGED vars]_vars

\* C8 as stated: the target lies on the target grid of the current mode.
C8_TargetOnGrid == Running => OnGrid(target, mode)

\* Logical points of the plane of cfg, on and between the grid lines.
SamplePoints(cfg) ==
  { Point(FAdd(cfg.xRange[1], dx), FAdd(cfg.yRange[1], dy)) :
      dx \in {Num(0), Num(1), <<1, 2>>}, dy \in {Num(0), <<1, 4>>} }

WithinHundredth(a, b) == FLeq(FSub(a, b), <<1, 100>>) /\ FLeq(FSub(b, a), <<1, 100>>)

\* C9 as stated: in the current mode and viewport, toLogical(toPixel(p)) is p
\* to within 0.01 in each coordinate, for integer and non-integer points p.
C9_MapperRoundTrip ==
  Running =>
    \A p \in SamplePoints(config) :
      LET r == toLogical(config, dimensions, toPixel(config, dimensions, p))
      IN  WithinHundredth(r.x, p.x) /\ WithinHundredth(r.y, p.y)

\* The stored blob is a JSON object mapping every tier to a count in Nat.
WellFormed(blob) ==
  /\ blob.kind = "json"
  /\ blob.value.type = "object"
  /\ DOMAIN blob.value.fields = DifficultyLevel
  /\ \A m \in DifficultyLevel : blob.value.fields[m] \in Nat

\* The runs that start from an absent or a well-formed stored blob.
InitWellFormedStore == Init /\ (storage.kind = "absent" \/ WellFormed(storage))

SpecWellFormedStore == InitWellFormedStore /\ [][Next]_vars

\* C10 as stated: construction adopts a well-formed stored mapping, and on
\* any other stored blob it raises no error, starts from count 0 for every
\* tier and so with every tier but the first locked.
C10_LoadFallback ==
  [][mount =>
       /\ WellFormed(storage) => progress' = storage.value
       /\ ~WellFormed(storage) =>
            /\ ~crashed'
            /\ progress' = ZeroProgress
            /\ \A m \in DifficultyLevel \ {Intro} : getLockStatus(m).isLocked']_vars

\* C11 as stated: each target is credited at most once and at most one
\* delayed regeneration is pending.  A pending callback that no mode switch
\* has made stale was scheduled by a hit on the target still installed, so a
\* click is evaluated as a success only while no such callback is pending,
\* and no step leaves more than one callback pending.
C11_CreditedOnce ==
  [][/\ IsSuccessResult(lastResult') /\ (\E q \in Pointers : handleClick(q)) =>
          \A i \in 1 .. Len(timers) : timers[i].stale
     /\ Len(timers') <= 1]_vars

====
